---- MODULE Spec2Model ----
(***************************************************************************)
(* Forward Euler integration of dN/dt = r N, as the notebook               *)
(* 1_1_forward_euler.ipynb runs it: parameter cells, the step count, the   *)
(* array initialisation, the update loop and the time axis.                *)
(*                                                                         *)
(* Numbers are exact rationals <<n, d>> with d > 0 in lowest terms, so the *)
(* arithmetic is the real arithmetic the floating-point cells approximate; *)
(* rounding of doubles is not modelled.  A name that a cell has not bound  *)
(* yet holds a placeholder (0 or the empty array) and pc tells which names *)
(* are bound.                                                              *)
(***************************************************************************)
EXTENDS Integers, Sequences, FiniteSets, TLC

VARIABLES N_0, r, delta_t, T_total, num_steps, N_t, range_it, t, times,
          pc, err, writes, ref

vars == <<N_0, r, delta_t, T_total, num_steps, N_t, range_it, t, times,
          pc, err, writes, ref>>

params == <<N_0, r, delta_t, T_total>>

(* ------------------------------ bounds --------------------------------- *)
MaxN0 == 2      \* N_0 ranges over -MaxN0 .. MaxN0
MaxR  == 3      \* r ranges over -MaxR .. MaxR
MaxDt == 2      \* delta_t ranges over -MaxDt/Denom .. MaxDt/Denom
MaxT  == 4      \* T_total ranges over -MaxT/Denom .. MaxT/Denom
Denom == 2      \* resolution of delta_t and T_total

(* ------------------------- rational arithmetic ------------------------- *)
Abs(x) == IF x < 0 THEN -x ELSE x

RECURSIVE GCD(_, _)
GCD(a, b) == IF b = 0 THEN a ELSE GCD(b, a % b)

\* the rational n/d (d # 0) in lowest terms with a positive denominator
Rat(n, d) ==
    LET g == GCD(Abs(n), Abs(d))
        s == IF d < 0 THEN -1 ELSE 1
    IN  <<(s * n) \div g, Abs(d) \div g>>

RInt(i)    == <<i, 1>>
Zero       == RInt(0)
One        == RInt(1)
RAdd(a, b) == Rat(a[1] * b[2] + b[1] * a[2], a[2] * b[2])
RSub(a, b) == Rat(a[1] * b[2] - b[1] * a[2], a[2] * b[2])
RMul(a, b) == Rat(a[1] * b[1], a[2] * b[2])
RDiv(a, b) == Rat(a[1] * b[2], a[2] * b[1])
RLt(a, b)  == a[1] * b[2] < b[1] * a[2]
RLeq(a, b) == a[1] * b[2] <= b[1] * a[2]

(* ----------------------------- the cells ------------------------------- *)
\* int(x): truncation of a float toward zero
int_ceil(x) == IF x[1] >= 0 THEN (x[1] + x[2] - 1) \div x[2]
               ELSE -((-x[1]) \div x[2])
int(x) == IF x[1] >= 0 THEN x[1] \div x[2] ELSE -((-x[1]) \div x[2])

\* num_steps = int(T_total / delta_t) + 1
StepCount_nofirst(T, dt) == int(RDiv(T, dt))
StepCount(T, dt) == int(RDiv(T, dt)) + 1

\* np.zeros(n)
zeros_ones(n) == [i \in 0 .. n - 1 |-> One]
zeros(n) == [i \in 0 .. n - 1 |-> Zero]

\* dN = r * delta_t * N_t[t-1]
dN_const(rate, dt, prev) == RMul(rate, dt)
dN_of(rate, dt, prev) == RMul(RMul(rate, dt), prev)

\* one pass of the loop body at index i: N_t[i] = N_t[i-1] + dN
EulerUpdate_shifted(arr, rate, dt, i) ==
    [arr EXCEPT ![i - 1] = RAdd(arr[i - 1], dN_of(rate, dt, arr[i - 1]))]
EulerUpdate_minus(arr, rate, dt, i) ==
    [arr EXCEPT ![i] = RSub(arr[i - 1], dN_of(rate, dt, arr[i - 1]))]
EulerUpdate_onlydN(arr, rate, dt, i) ==
    [arr EXCEPT ![i] = dN_of(rate, dt, arr[i - 1])]
EulerUpdate_current(arr, rate, dt, i) ==
    [arr EXCEPT ![i] = RAdd(arr[i - 1], dN_of(rate, dt, arr[i]))]
EulerUpdate(arr, rate, dt, i) ==
    [arr EXCEPT ![i] = RAdd(arr[i - 1], dN_of(rate, dt, arr[i - 1]))]

\* times = np.arange(num_steps) * delta_t
arange(n) == [i \in 0 .. n - 1 |-> RInt(i)]
TimeAxis_from1(n, dt) == [i \in 0 .. n - 1 |-> RMul(RInt(i + 1), dt)]
TimeAxis(n, dt) == [i \in 0 .. n - 1 |-> RMul(arange(n)[i], dt)]

(* ------------------------------ inputs --------------------------------- *)
GridParams ==
    { <<RInt(n), RInt(k), Rat(d, Denom), Rat(T, Denom)>> :
        n \in -MaxN0 .. MaxN0, k \in -MaxR .. MaxR,
        d \in -MaxDt .. MaxDt, T \in -MaxT .. MaxT }

\* worked examples: equations (3)-(4) of the notebook (N = 10, r = 1,
\* dt = 0.1), the notebook's own grid (dt = 0.01 over T = 5, here with a
\* zero rate), and a zero-length run
SampleParams ==
    { <<RInt(10), One,  Rat(1, 10),  Rat(1, 5)>>,
      <<One,      Zero, Rat(1, 100), RInt(5)>>,
      <<RInt(10), Zero, Rat(1, 10),  Zero>> }

Params == GridParams \cup SampleParams

\* no run has been set aside for comparison yet
NoRef == <<>>

Init ==
    /\ \E p \in Params :
          /\ N_0 = p[1]
          /\ r = p[2]
          /\ delta_t = p[3]
          /\ T_total = p[4]
    /\ num_steps = 0
    /\ N_t = zeros(0)
    /\ range_it = 0
    /\ t = 0
    /\ times = zeros(0)
    /\ pc = "num_steps"
    /\ err = "none"
    /\ writes = <<>>
    /\ ref = NoRef

(* ------------------------------ actions -------------------------------- *)
\* cell: num_steps = int(T_total / delta_t) + 1
ComputeNumSteps ==
    /\ pc = "num_steps"
    /\ IF delta_t = Zero
         THEN /\ pc' = "error"
              /\ err' = "ZeroDivisionError"
              /\ UNCHANGED num_steps
         ELSE /\ num_steps' = StepCount(T_total, delta_t)
              /\ pc' = "init"
              /\ UNCHANGED err
    /\ UNCHANGED <<ref, params, N_t, range_it, t, times, writes>>

\* cell: N_t = np.zeros(num_steps); N_t[0] = N_0
InitArray ==
    /\ pc = "init"
    /\ IF num_steps < 0
         THEN /\ pc' = "error"
              /\ err' = "ValueError"
              /\ UNCHANGED N_t
         ELSE IF num_steps = 0
           THEN /\ N_t' = zeros(num_steps)
                /\ pc' = "error"
                /\ err' = "IndexError"
           ELSE /\ N_t' = [zeros(num_steps) EXCEPT ![0] = N_0]
                /\ pc' = "for"
                /\ UNCHANGED err
    /\ UNCHANGED <<ref, params, num_steps, range_it, t, times, writes>>

\* cell: for t in range(1, num_steps) -- the iterator is created
LoopEnter_noreset ==
    /\ pc = "for"
    /\ range_it' = (IF range_it = 0 THEN 1 ELSE range_it)
    /\ pc' = "loop"
    /\ UNCHANGED <<ref, params, num_steps, N_t, t, times, err, writes>>
LoopEnter ==
    /\ pc = "for"
    /\ range_it' = 1
    /\ pc' = "loop"
    /\ UNCHANGED <<ref, params, num_steps, N_t, t, times, err, writes>>

\* one iteration of the loop body
LoopStep_skip ==
    /\ pc = "loop"
    /\ range_it < num_steps
    /\ t' = range_it
    /\ range_it' = range_it + 2
    /\ N_t' = EulerUpdate(N_t, r, delta_t, range_it)
    /\ writes' = Append(writes, range_it)
    /\ UNCHANGED <<ref, params, num_steps, times, pc, err>>
LoopStep ==
    /\ pc = "loop"
    /\ range_it < num_steps
    /\ t' = range_it
    /\ range_it' = range_it + 1
    /\ N_t' = EulerUpdate(N_t, r, delta_t, range_it)
    /\ writes' = Append(writes, range_it)
    /\ UNCHANGED <<ref, params, num_steps, times, pc, err>>

\* the range is exhausted
LoopExit ==
    /\ pc = "loop"
    /\ range_it >= num_steps
    /\ pc' = "times"
    /\ UNCHANGED <<ref, params, num_steps, N_t, range_it, t, times, err, writes>>

\* cell: times = np.arange(num_steps) * delta_t
ComputeTimes ==
    /\ pc = "times"
    /\ times' = TimeAxis(num_steps, delta_t)
    /\ pc' = "done"
    /\ UNCHANGED <<ref, params, num_steps, N_t, range_it, t, err, writes>>

Next ==
    \/ ComputeNumSteps
    \/ InitArray
    \/ LoopEnter
    \/ LoopStep
    \/ LoopExit
    \/ ComputeTimes

Spec == Init /\ [][Next]_vars

\* the interpreter keeps executing: a cell or loop pass that can run does run
FairSpec == Spec /\ WF_vars(Next)

(* ------------------------ running the cells again ---------------------- *)
\* parameter values typed into the parameter cells between runs: both
\* signs of the rate, a zero step, durations that are negative, and
\* durations that the step divides and does not divide
RerunParams ==
    { <<RInt(n), RInt(k), Rat(d, Denom), Rat(T, Denom)>> :
        n \in 1 .. MaxN0, k \in {-1, 1},
        d \in 0 .. MaxDt, T \in {-1, MaxT - 1, MaxT} }

\* what a finished run hands to its caller: the trajectory, or the error
Outcome ==
    IF pc = "done" THEN <<"done", N_t, times>> ELSE <<"error", err>>

RerunInit ==
    /\ \E p \in RerunParams :
          /\ N_0 = p[1]
          /\ r = p[2]
          /\ delta_t = p[3]
          /\ T_total = p[4]
    /\ num_steps = 0
    /\ N_t = zeros(0)
    /\ range_it = 0
    /\ t = 0
    /\ times = zeros(0)
    /\ pc = "num_steps"
    /\ err = "none"
    /\ writes = <<>>
    /\ ref = NoRef

\* the parameter cells are edited and the notebook is run again from the
\* top in the same kernel: every global of the finished run (num_steps,
\* N_t, t, times) is still bound to its old value.  The finished run may be
\* set aside in ref, to be compared with later runs of the same parameters.
Rerun ==
    /\ pc \in {"done", "error"}
    /\ \E p \in RerunParams :
          /\ N_0' = p[1]
          /\ r' = p[2]
          /\ delta_t' = p[3]
          /\ T_total' = p[4]
    /\ pc' = "num_steps"
    /\ err' = "none"
    /\ writes' = <<>>
    /\ ref' \in (IF ref = NoRef THEN {NoRef, <<params, Outcome>>} ELSE {ref})
    /\ UNCHANGED <<num_steps, N_t, range_it, t, times>>

RerunNext ==
    \/ ComputeNumSteps
    \/ InitArray
    \/ LoopEnter
    \/ LoopStep
    \/ LoopExit
    \/ ComputeTimes
    \/ Rerun

RerunSpec == RerunInit /\ [][RerunNext]_vars

(* ---------------- the notebook's own parameters, enclosed -------------- *)
\* The notebook's rate r = ln(2)/t_d is irrational.  This run replaces it
\* by a rational upper bound and rounds every increment dN up to a multiple
\* of 1/Scale, so that each entry of N_t is an upper bound of the value the
\* loop computes in real arithmetic (the update is increasing in r and in
\* N_t[t-1] when both are positive).

\* t_d = 0.5
t_d == Rat(1, 2)

\* np.log(2) = 0.693147..., rounded up
log2_hi == Rat(69315, 100000)

\* r = np.log(2)/t_d
SampleRate == RDiv(log2_hi, t_d)

\* resolution of the enclosure
Scale == 10000

CeilDiv(a, b) == (a + b - 1) \div b

\* an upper bound, in units of 1/Scale, of (m/Scale) * x for m >= 0 and a
\* rational x >= 0 whose denominator is a multiple of Scale; the product is
\* taken in two parts to stay within 32-bit integers
MulUp(m, x) ==
    CeilDiv((m \div Scale) * x[1], x[2] \div Scale)
      + CeilDiv((m % Scale) * x[1], x[2])

\* the numerator of v over the denominator Scale
Scaled(v) == v[1] * (Scale \div v[2])

\* one pass of the loop body at index i, rounded up:
\* dN = r * delta_t * N_t[i-1]; N_t[i] = N_t[i-1] + dN
EulerUpdateUp_twice(arr, rate, dt, i) ==
    LET m == Scaled(arr[i - 1])
        dN == MulUp(m, RMul(rate, dt))
    IN  [arr EXCEPT ![i] = Rat(m + dN + dN, Scale)]
EulerUpdateUp(arr, rate, dt, i) ==
    LET m == Scaled(arr[i - 1])
        dN == MulUp(m, RMul(rate, dt))
    IN  [arr EXCEPT ![i] = Rat(m + dN, Scale)]

\* solution = N_0 * np.exp(r*times) at a time that is a whole number k of
\* doubling times: exp((ln(2)/t_d) * k * t_d) = 2^k
WholeDoublings(time) == RDiv(time, t_d)[2] = 1
Solution(time) == RMul(N_0, RInt(2 ^ (RDiv(time, t_d)[1])))

\* N_0 = 1, t_d = 0.5, T_total = 5, delta_t = .01
SampleInit ==
    /\ N_0 = One
    /\ r = SampleRate
    /\ T_total = RInt(5)
    /\ delta_t = Rat(1, 100)
    /\ num_steps = 0
    /\ N_t = zeros(0)
    /\ range_it = 0
    /\ t = 0
    /\ times = zeros(0)
    /\ pc = "num_steps"
    /\ err = "none"
    /\ writes = <<>>
    /\ ref = NoRef

\* one iteration of the loop body, rounded up
LoopStepUp ==
    /\ pc = "loop"
    /\ range_it < num_steps
    /\ t' = range_it
    /\ range_it' = range_it + 1
    /\ N_t' = EulerUpdateUp(N_t, r, delta_t, range_it)
    /\ writes' = Append(writes, range_it)
    /\ UNCHANGED <<ref, params, num_steps, times, pc, err>>

SampleNext ==
    \/ ComputeNumSteps
    \/ InitArray
    \/ LoopEnter
    \/ LoopStepUp
    \/ LoopExit
    \/ ComputeTimes

SampleSpec == SampleInit /\ [][SampleNext]_vars

(* --------------------------- shared notions ---------------------------- *)
\* the spec's valid inputs: dt > 0 and T >= 0
Valid == RLt(Zero, delta_t) /\ RLeq(Zero, T_total)

\* the same condition read off the signs of the numerators (denominators
\* are positive)
ValidSigns == delta_t[1] > 0 /\ T_total[1] >= 0

\* the array exists and holds the initial value
ArrayBound == pc \in {"for", "loop", "times", "done"}

\* highest index the loop has written so far (0 before the first pass)
Written == IF pc = "loop" THEN range_it - 1
           ELSE IF pc \in {"times", "done"} THEN num_steps - 1 ELSE 0

TypeOK ==
    /\ params \in Params
    /\ num_steps \in Int
    /\ pc \in {"num_steps", "init", "for", "loop", "times", "done", "error"}
    /\ err \in {"none", "ZeroDivisionError", "ValueError", "IndexError"}
    /\ (pc = "error") = (err # "none")

(* ------------------------------- claims -------------------------------- *)
\* C1: for valid inputs every written value satisfies
\* value[i] = value[i-1] + r*dt*value[i-1] = value[i-1]*(1 + r*dt), the
\* derivative being taken at the previous point, with no correction or
\* clamping.
C1_Recurrence ==
    Valid =>
      \A i \in 1 .. Written :
        /\ N_t[i] = RAdd(N_t[i - 1], RMul(RMul(r, delta_t), N_t[i - 1]))
        /\ N_t[i] = RMul(N_t[i - 1], RAdd(One, RMul(r, delta_t)))

\* from N = 10 with r = 1 and dt = 0.1 one step has given 11
C1_Witness ==
    /\ pc = "done"
    /\ N_0 = RInt(10) /\ r = One /\ delta_t = Rat(1, 10)
    /\ num_steps >= 2
    /\ N_t[1] = RInt(11)

\* C2: for valid inputs the trajectory has exactly floor(T/dt) + 1 points:
\* with k = num_steps - 1, k*dt <= T < (k+1)*dt, the array and the time axis
\* have num_steps entries and the last time is the largest multiple of dt
\* not exceeding T.
C2_StepCount ==
    (Valid /\ pc \in {"init", "for", "loop", "times", "done"}) =>
      /\ num_steps >= 1
      /\ RLeq(RMul(RInt(num_steps - 1), delta_t), T_total)
      /\ RLt(T_total, RMul(RInt(num_steps), delta_t))
      /\ ArrayBound => DOMAIN N_t = 0 .. num_steps - 1
      /\ pc = "done" =>
           /\ DOMAIN times = 0 .. num_steps - 1
           /\ RLeq(times[num_steps - 1], T_total)
           /\ RLt(T_total, RAdd(times[num_steps - 1], delta_t))

\* dt = 0.01 and T = 5 have given exactly 501 points
C2_Witness ==
    /\ pc = "done"
    /\ N_0 = One /\ delta_t = Rat(1, 100) /\ T_total = RInt(5)
    /\ num_steps = 501
    /\ DOMAIN N_t = 0 .. 500

\* C3: a step size dt that is zero or negative makes the integration fail
\* and produce no trajectory, for every N0, r and T.
C3_NonPositiveStepFails ==
    ~RLt(Zero, delta_t) => pc # "done"

\* C4: a negative total duration T makes the integration fail and produce
\* no trajectory, for every N0, r and dt > 0.
C4_NegativeDurationFails ==
    (RLt(T_total, Zero) /\ RLt(Zero, delta_t)) => pc # "done"

\* C5 as stated: if r < 0 and N0 > 0 the values are strictly decreasing for
\* every valid dt and T, whatever the size of r*dt.
C5_DecreasingAnyStep ==
    (Valid /\ RLt(r, Zero) /\ RLt(Zero, N_0)) =>
      \A i \in 1 .. Written : RLt(N_t[i], N_t[i - 1])

\* C5 amended: if r < 0, N0 > 0 and r*dt > -1 the values are strictly
\* decreasing.
C5_DecreasingSmallStep ==
    (Valid /\ RLt(r, Zero) /\ RLt(Zero, N_0)
           /\ RLt(RInt(-1), RMul(r, delta_t))) =>
      \A i \in 1 .. Written : RLt(N_t[i], N_t[i - 1])

C5_Witness ==
    /\ pc = "done"
    /\ RLt(r, Zero) /\ RLt(Zero, N_0) /\ RLt(RInt(-1), RMul(r, delta_t))
    /\ num_steps >= 3
    /\ RLt(N_t[2], N_t[1]) /\ RLt(N_t[1], N_t[0])

C7_ConstantAtZeroRate ==
    (Valid /\ r = Zero /\ ArrayBound) =>
      /\ \A i \in 0 .. Written : N_t[i] = N_0
      /\ pc \in {"times", "done"} => \A i \in DOMAIN N_t : N_t[i] = N_0

C7_Witness ==
    /\ pc = "done"
    /\ r = Zero /\ RLt(N_0, Zero)
    /\ num_steps >= 3
    /\ N_t[num_steps - 1] = N_0

\* C8: for valid inputs the first point has time 0 and value N0, and no
\* step of the integration overwrites it.
C8_FirstPoint ==
    /\ [](Valid /\ ArrayBound =>
            /\ N_t[0] = N_0
            /\ pc = "done" => times[0] = Zero)
    /\ [][Valid /\ ArrayBound => N_t'[0] = N_t[0] /\ N_0' = N_0]_vars

C8_Witness ==
    /\ pc = "done"
    /\ Valid /\ r # Zero /\ N_0 # Zero
    /\ Len(writes) >= 2
    /\ N_t[0] = N_0 /\ N_t[1] # N_0
    /\ times[0] = Zero

\* C9: for valid inputs the time of point i is i*dt for i = 0 .. steps-1,
\* so the times are strictly increasing with constant spacing dt, and there
\* is exactly one time per trajectory value.
C9_TimeAxis ==
    (Valid /\ pc = "done") =>
      /\ DOMAIN times = DOMAIN N_t
      /\ DOMAIN times = 0 .. num_steps - 1
      /\ \A i \in DOMAIN times :
           /\ times[i][1] * delta_t[2] = i * delta_t[1] * times[i][2]
           /\ i >= 1 => /\ RLt(times[i - 1], times[i])
                        /\ RSub(times[i], times[i - 1]) = delta_t

C9_Witness ==
    /\ pc = "done"
    /\ Valid
    /\ num_steps >= 4
    /\ delta_t = Rat(1, Denom)
    /\ times[3] = Rat(3, Denom)

\* C10: with T = 0 and dt > 0 the integration returns the single point
\* (0, N0) and performs no update step.
C10_ZeroDuration ==
    (Valid /\ T_total = Zero) =>
      /\ writes = <<>>
      /\ pc \in {"init", "for", "loop", "times", "done"} => num_steps = 1
      /\ pc = "done" => /\ N_t = [i \in {0} |-> N_0]
                        /\ times = [i \in {0} |-> Zero]

\* N0 = 10, r = 0, dt = 0.1, T = 0 has returned [(0, 10)]
C10_Witness ==
    /\ pc = "done"
    /\ N_0 = RInt(10) /\ r = Zero /\ delta_t = Rat(1, 10) /\ T_total = Zero
    /\ N_t = [i \in {0} |-> RInt(10)]
    /\ times = [i \in {0} |-> Zero]
    /\ writes = <<>>

\* C11: the integration is deterministic and stateless across runs: a run
\* with the same (N0, r, dt, T) as an earlier run ends with the same
\* outcome (the same trajectory and time axis, or the same error), whatever
\* runs came before either of them and whatever they left in the globals.
C11_Stateless ==
    (ref # NoRef /\ pc \in {"done", "error"} /\ params = ref[1]) =>
      Outcome = ref[2]

\* a later run repeats the parameters of the run set aside and ends with
\* the same trajectory of three or more points
C11_Witness ==
    /\ ref # NoRef
    /\ pc = "done"
    /\ params = ref[1]
    /\ Outcome = ref[2]
    /\ Len(writes) >= 2
    /\ range_it = num_steps

\* C12: with the notebook's parameters (N0 = 1, doubling time 0.5, dt = 0.01,
\* T = 5) the Euler trajectory lies strictly below the analytical solution
\* N0*exp(r*t) at every whole number of doubling times, and the final Euler
\* value lies strictly below the analytical final value 1024.
C12_BelowAnalytical ==
    /\ \A i \in 1 .. Written :
         WholeDoublings(RMul(RInt(i), delta_t)) =>
           RLt(N_t[i], Solution(RMul(RInt(i), delta_t)))
    /\ pc = "done" =>
         /\ Solution(times[num_steps - 1]) = RInt(1024)
         /\ RLt(N_t[num_steps - 1], Solution(times[num_steps - 1]))

\* the run has finished with 501 points and a final value between 900 and
\* 1024
C12_Witness ==
    /\ pc = "done"
    /\ num_steps = 501
    /\ Len(writes) = 500
    /\ times[500] = RInt(5)
    /\ RLt(RInt(900), N_t[500])
    /\ RLt(N_t[500], RInt(1024))

\* C13: for valid inputs the integration terminates: the loop performs
\* exactly steps-1 updates, writing the indices 1, 2, ..., steps-1 each once
\* and in increasing order, and then the run finishes with the complete
\* trajectory and nothing runs after it.
C13_Terminates ==
    /\ [](Valid <=> ValidSigns)
    /\ [](Valid =>
            /\ pc = "loop" =>
                 /\ range_it \in 1 .. num_steps
                 /\ writes = [i \in 1 .. range_it - 1 |-> i]
            /\ pc \in {"times", "done"} =>
                 /\ writes = [i \in 1 .. num_steps - 1 |-> i]
                 /\ DOMAIN N_t = 0 .. num_steps - 1
            /\ pc = "done" => DOMAIN times = 0 .. num_steps - 1)
    /\ [][pc # "done"]_vars
    /\ (ValidSigns ~> (pc = "done"))

C13_Witness ==
    /\ pc = "done"
    /\ Valid
    /\ num_steps = 4
    /\ writes = <<1, 2, 3>>
    /\ DOMAIN N_t = 0 .. 3

\* x to the power n, by repeated multiplication
RECURSIVE RPow(_, _)
RPow(x, n) == IF n = 0 \/ x = One THEN One ELSE RMul(RPow(x, n - 1), x)

\* C14: each pass t of the loop writes only N_t[t]: the earlier entries keep
\* their values, the later entries stay at their initial 0, and N_0, r,
\* delta_t, T_total and num_steps are unchanged; hence at every point of the
\* integration the written prefix is N0*(1 + r*dt)^i at each index i.
C14_Frame ==
    /\ [](ArrayBound =>
            \A i \in DOMAIN N_t :
              IF i <= Written
                THEN N_t[i] = RMul(N_0, RPow(RAdd(One, RMul(r, delta_t)), i))
                ELSE N_t[i] = Zero)
    /\ [][(pc = "loop" /\ pc' = "loop") =>
            /\ t' = range_it
            /\ DOMAIN N_t' = DOMAIN N_t
            /\ \A i \in DOMAIN N_t : i # t' => N_t'[i] = N_t[i]
            /\ params' = params
            /\ num_steps' = num_steps]_vars

\* the loop is half way: two entries written and different, two still 0
C14_Witness ==
    /\ pc = "loop"
    /\ range_it = 3
    /\ num_steps >= 5
    /\ r # Zero /\ N_0 # Zero
    /\ N_t[1] # N_t[0] /\ N_t[2] # N_t[1] /\ N_t[2] # Zero
    /\ N_t[3] = Zero /\ N_t[4] = Zero
====
